---------------------------- MODULE Spec2Model ----------------------------
(***************************************************************************)
(* Model of crates/metrics/src/stats.rs: DescriptiveStats (add, merge),    *)
(* LessThanStatCheck::check, StatCheck::check_all and StatsByMetric        *)
(* (from_iter, merge).                                                     *)
(*                                                                         *)
(* f64 values are modelled as records [k, n, d]:                           *)
(*   k = "fin"   the finite value n/d (d > 0, gcd(n, d) = 1)               *)
(*   k = "nan", "pinf", "ninf"   NaN, +infinity, -infinity                 *)
(*   k = "fmin", "fmax"   the greatest-magnitude finite values -f64::MAX   *)
(*                        and f64::MAX (num_traits Float::min_value and    *)
(*                        Float::max_value)                                *)
(*   k = "sqrt"  the square root of the finite value n/d                   *)
(* Finite arithmetic is exact (no rounding, no overflow: the values fed    *)
(* to the statistics are small); NaN and the infinities follow IEEE 754.   *)
(* Divisors are counts, so a zero divisor is always +0.                    *)
(***************************************************************************)
EXTENDS Integers, Sequences, FiniteSets, TLC

VARIABLES stat, obs, pure, arrival, merges, outcome, sets, seen, results

vars == <<stat, obs, pure, arrival, merges, outcome, sets, seen, results>>

---------------------------------------------------------------------------
(* f64 *)

Abs(i) == IF i < 0 THEN -i ELSE i

RECURSIVE GCD(_, _)
GCD(a, b) == IF b = 0 THEN a ELSE GCD(b, a % b)

Fin(n, d) ==
  LET g == GCD(Abs(n), d)
  IN  [k |-> "fin", n |-> n \div g, d |-> d \div g]

NaN == [k |-> "nan", n |-> 0, d |-> 1]
PInf == [k |-> "pinf", n |-> 0, d |-> 1]
NInf == [k |-> "ninf", n |-> 0, d |-> 1]
F64Min == [k |-> "fmin", n |-> 0, d |-> 1]
F64Max == [k |-> "fmax", n |-> 0, d |-> 1]
Zero == Fin(0, 1)

\* u64 as f64
FromU64(c) == Fin(c, 1)

IsInf(a) == a.k \in {"pinf", "ninf"}

Sgn(a) ==
  CASE a.k = "pinf" -> 1
    [] a.k = "ninf" -> -1
    [] OTHER -> IF a.n > 0 THEN 1 ELSE IF a.n < 0 THEN -1 ELSE 0

FNeg(a) ==
  CASE a.k = "pinf" -> NInf
    [] a.k = "ninf" -> PInf
    [] a.k = "nan" -> NaN
    [] OTHER -> Fin(-a.n, a.d)

FAdd(a, b) ==
  IF a.k = "nan" \/ b.k = "nan" THEN NaN
  ELSE IF IsInf(a) /\ IsInf(b) THEN (IF a.k = b.k THEN a ELSE NaN)
  ELSE IF IsInf(a) THEN a
  ELSE IF IsInf(b) THEN b
  ELSE Fin(a.n * b.d + b.n * a.d, a.d * b.d)

FSub(a, b) == FAdd(a, FNeg(b))

FMul(a, b) ==
  IF a.k = "nan" \/ b.k = "nan" THEN NaN
  ELSE IF IsInf(a) \/ IsInf(b)
       THEN (IF Sgn(a) * Sgn(b) = 0 THEN NaN
             ELSE IF Sgn(a) * Sgn(b) > 0 THEN PInf ELSE NInf)
  ELSE Fin(a.n * b.n, a.d * b.d)

FDiv(a, b) ==
  IF a.k = "nan" \/ b.k = "nan" THEN NaN
  ELSE IF IsInf(a) /\ IsInf(b) THEN NaN
  ELSE IF IsInf(a)
       THEN (IF Sgn(a) * (IF Sgn(b) < 0 THEN -1 ELSE 1) > 0 THEN PInf ELSE NInf)
  ELSE IF IsInf(b) THEN Zero
  ELSE IF b.n = 0
       THEN (IF a.n = 0 THEN NaN ELSE IF a.n > 0 THEN PInf ELSE NInf)
  ELSE Fin(a.n * b.d * Sgn(b), a.d * Abs(b.n))

FSqrt(a) ==
  CASE a.k = "nan" -> NaN
    [] a.k = "ninf" -> NaN
    [] a.k = "pinf" -> PInf
    [] OTHER -> IF a.n < 0 THEN NaN ELSE [k |-> "sqrt", n |-> a.n, d |-> a.d]

Rank(a) ==
  CASE a.k = "ninf" -> 0
    [] a.k = "fmin" -> 1
    [] a.k = "fmax" -> 3
    [] a.k = "pinf" -> 4
    [] OTHER -> 2

\* a > b on f64: false when either side is NaN.  Two "sqrt" values compare
\* as their radicands do (sqrt is increasing); a "fin" is never compared
\* with a "sqrt".
Gt(a, b) ==
  IF a.k = "nan" \/ b.k = "nan" THEN FALSE
  ELSE IF Rank(a) # Rank(b) THEN Rank(a) > Rank(b)
  ELSE IF Rank(a) = 2 THEN a.n * b.d > b.n * a.d
  ELSE FALSE

Lt(a, b) == Gt(b, a)

---------------------------------------------------------------------------
(* stats::OnlineStats (crate streaming-stats): running mean and variance.  *)
(* The crate is a dependency, not part of stats.rs; it is modelled as the  *)
(* design describes it: a single-pass (Welford) update, a parallel-        *)
(* variance combination of two (count, mean, variance) triples, and a zero *)
(* state of 0.  Its divisions are plain f64 divisions: 0/0 is NaN.         *)

OnlineStatsNew == [size |-> 0, mean |-> Zero, variance |-> Zero]

\* Welford's single-pass update.
OnlineStatsAdd(o, sample) ==
  LET oldmean == o.mean
      prevq == FMul(o.variance, FromU64(o.size))
      size == o.size + 1
      mean == FAdd(oldmean, FDiv(FSub(sample, oldmean), FromU64(size)))
      variance == FDiv(FAdd(prevq, FMul(FSub(sample, oldmean), FSub(sample, mean))),
                       FromU64(size))
  IN  [size |-> size, mean |-> mean, variance |-> variance]

\* Combination of two (count, mean, variance) triples (parallel variance).
OnlineStatsMerge(o, v) ==
  LET s1 == FromU64(o.size)
      s2 == FromU64(v.size)
      s12 == FAdd(s1, s2)
      meandiff == FSub(o.mean, v.mean)
      meandiffsq == FMul(meandiff, meandiff)
      mean == FDiv(FAdd(FMul(s1, o.mean), FMul(s2, v.mean)), s12)
      var == FAdd(FDiv(FAdd(FMul(s1, o.variance), FMul(s2, v.variance)), s12),
                  FDiv(FMul(FMul(s1, s2), meandiffsq), FMul(s12, s12)))
  IN  [size |-> o.size + v.size, mean |-> mean, variance |-> var]

---------------------------------------------------------------------------
(* DescriptiveStats *)

empty == [online_stats |-> OnlineStatsNew, max |-> F64Min, min |-> F64Max, cnt |-> 0]

add(self, value) ==
  [online_stats |-> OnlineStatsAdd(self.online_stats, value),
   max |-> IF Gt(value, self.max) THEN value ELSE self.max,
   min |-> IF Lt(value, self.min) THEN value ELSE self.min,
   cnt |-> self.cnt + 1]

mean(self) == self.online_stats.mean
variance(self) == self.online_stats.variance
stddev(self) == FSqrt(self.online_stats.variance)
max(self) == self.max
min(self) == self.min
count(self) == self.cnt

merge(self, rhs) ==
  [online_stats |-> OnlineStatsMerge(self.online_stats, rhs.online_stats),
   max |-> IF Gt(rhs.max, self.max) THEN rhs.max ELSE self.max,
   min |-> IF Lt(rhs.min, self.min) THEN rhs.min ELSE self.min,
   cnt |-> self.cnt + rhs.cnt]

---------------------------------------------------------------------------
(* LessThanStatCheck::check and StatCheck::check_all *)

StatFailure(e, a, t) == [expected |-> e, actual |-> a, stat_type |-> t]

\* Result<DescriptiveStats, Vec<StatFailure>>: stat holds the carried
\* statistic of an Ok (and nothing for an Err).
Ok(s) == [tag |-> "Ok", stat |-> <<s>>, failures |-> <<>>]
Err(f) == [tag |-> "Err", stat |-> <<>>, failures |-> f]

\* check with a return at the first failing dimension
check_short_circuit(expected, actual) ==
  IF Gt(mean(actual), mean(expected))
  THEN Err(<<StatFailure(mean(expected), mean(actual), "Mean")>>)
  ELSE IF Gt(stddev(actual), stddev(expected))
  THEN Err(<<StatFailure(stddev(expected), stddev(actual), "StdDev")>>)
  ELSE IF Gt(max(actual), max(expected))
  THEN Err(<<StatFailure(max(expected), max(actual), "Max")>>)
  ELSE IF Gt(min(actual), min(expected))
  THEN Err(<<StatFailure(min(expected), min(actual), "Min")>>)
  ELSE IF count(actual) > count(expected)
  THEN Err(<<StatFailure(FromU64(count(expected)), FromU64(count(actual)), "Count")>>)
  ELSE Ok(actual)

\* check with >= in place of > on the count dimension
check_count_ge(expected, actual) ==
  LET f1 == IF Gt(mean(actual), mean(expected))
            THEN <<StatFailure(mean(expected), mean(actual), "Mean")>> ELSE <<>>
      f2 == IF Gt(stddev(actual), stddev(expected))
            THEN f1 \o <<StatFailure(stddev(expected), stddev(actual), "StdDev")>>
            ELSE f1
      f3 == IF Gt(max(actual), max(expected))
            THEN f2 \o <<StatFailure(max(expected), max(actual), "Max")>> ELSE f2
      f4 == IF Gt(min(actual), min(expected))
            THEN f3 \o <<StatFailure(min(expected), min(actual), "Min")>> ELSE f3
      failures == IF count(actual) >= count(expected)
                  THEN f4 \o <<StatFailure(FromU64(count(expected)),
                                           FromU64(count(actual)), "Count")>>
                  ELSE f4
  IN  IF failures = <<>> THEN Ok(actual) ELSE Err(failures)

check(expected, actual) ==
  LET f1 == IF Gt(mean(actual), mean(expected))
            THEN <<StatFailure(mean(expected), mean(actual), "Mean")>> ELSE <<>>
      f2 == IF Gt(stddev(actual), stddev(expected))
            THEN f1 \o <<StatFailure(stddev(expected), stddev(actual), "StdDev")>>
            ELSE f1
      f3 == IF Gt(max(actual), max(expected))
            THEN f2 \o <<StatFailure(max(expected), max(actual), "Max")>> ELSE f2
      f4 == IF Gt(min(actual), min(expected))
            THEN f3 \o <<StatFailure(min(expected), min(actual), "Min")>> ELSE f3
      failures == IF count(actual) > count(expected)
                  THEN f4 \o <<StatFailure(FromU64(count(expected)),
                                           FromU64(count(actual)), "Count")>>
                  ELSE f4
  IN  IF failures = <<>> THEN Ok(actual) ELSE Err(failures)

\* check_all with the arguments of check swapped
check_all_swapped(expected, actual) ==
  [stat_name \in DOMAIN expected |->
     IF stat_name \in DOMAIN actual
     THEN check(actual[stat_name], expected[stat_name])
     ELSE Err(<<>>)]

\* check_all that accepts the expected statistic of a name actual lacks
check_all_absent_ok(expected, actual) ==
  [stat_name \in DOMAIN expected |->
     IF stat_name \in DOMAIN actual
     THEN check(expected[stat_name], actual[stat_name])
     ELSE Ok(expected[stat_name])]

\* expected, actual: maps from metric name to DescriptiveStats
check_all(expected, actual) ==
  [stat_name \in DOMAIN expected |->
     IF stat_name \in DOMAIN actual
     THEN check(expected[stat_name], actual[stat_name])
     ELSE Err(<<>>)]

---------------------------------------------------------------------------
(* StatsByMetric: a map from metric name to DescriptiveStats *)

Metric(name, value) == [name |-> name, value |-> value]

\* entry(name).or_insert_with(DescriptiveStats::empty)
or_insert_empty(m, name) ==
  IF name \in DOMAIN m THEN m
  ELSE [n \in DOMAIN m \cup {name} |-> IF n = name THEN empty ELSE m[n]]

fold_step(stats_by_metric_name, metric) ==
  LET m == or_insert_empty(stats_by_metric_name, metric.name)
  IN  [m EXCEPT ![metric.name] = add(@, metric.value)]

RECURSIVE fold(_, _)
fold(acc, source) ==
  IF source = <<>> THEN acc ELSE fold(fold_step(acc, Head(source)), Tail(source))

EmptyMap == [n \in {} |-> empty]

from_iter(source) == fold(EmptyMap, source)

merge_entry(m, metric_name, online_stats_rhs) ==
  LET e == or_insert_empty(m, metric_name)
  IN  [e EXCEPT ![metric_name] = merge(@, online_stats_rhs)]

\* The entries of rhs touch distinct keys, so the iteration order of the
\* HashMap does not change the result.
stats_by_metric_merge(self, rhs) ==
  [n \in DOMAIN self \cup DOMAIN rhs |->
     IF n \in DOMAIN rhs
     THEN merge_entry(self, n, rhs[n])[n]
     ELSE self[n]]

---------------------------------------------------------------------------
(* State.                                                                  *)
(*   stat     the DescriptiveStats values held by a caller, by slot        *)
(*   obs      history: the values each slot's statistic stands for         *)
(*   pure     history: the slot was built from empty() by add() alone      *)
(*   arrival  history: the <<slot, value>> pairs in the order of add()     *)
(*   merges   history: the number of merge() calls so far                  *)
(*   outcome  the result of the last check(), with its arguments           *)
(*   sets     the StatsByMetric values held by a caller                    *)
(*   seen     history: the values each set stands for, by metric name      *)
(*   results  the result of the last check_all(), with its arguments       *)

Slots == {"A", "B", "C"}
CheckSlots == {"A", "B"}
SetIds == {"X", "Y"}
Names == {"latency", "size"}

\* the f64 inputs: finite values, both infinities and NaN
Val == {NInf, Fin(1, 1), Fin(3, 1), PInf, NaN}
SetVal == {NInf, Fin(1, 1), Fin(3, 1)}
CheckVal == Val \cup {Fin(5, 1)}

MaxAdds == 3
MaxMerges == 2
MaxCount == 3
MaxStream == 2

None == [tag |-> "None"]

NoSeen == [n \in Names |-> <<>>]

RECURSIVE SeqsUpTo(_, _)
SeqsUpTo(S, n) ==
  IF n = 0 THEN {<<>>}
  ELSE LET shorter == SeqsUpTo(S, n - 1)
       IN  shorter \cup {Append(q, x) : q \in shorter, x \in S}

Metrics == {Metric(n, v) : n \in Names, v \in SetVal}

InitStats ==
  /\ stat = [s \in Slots |-> empty]
  /\ obs = [s \in Slots |-> <<>>]
  /\ pure = [s \in Slots |-> TRUE]
  /\ arrival = <<>>
  /\ merges = 0
  /\ outcome = None

InitSets ==
  /\ sets = [k \in SetIds |-> EmptyMap]
  /\ seen = [k \in SetIds |-> NoSeen]
  /\ results = None

Init == InitStats /\ InitSets

\* stat[s].add(v), recorded in the histories
Add(s, v) ==
  /\ Len(arrival) < MaxAdds
  /\ stat[s].cnt < MaxCount
  /\ stat' = [stat EXCEPT ![s] = add(@, v)]
  /\ obs' = [obs EXCEPT ![s] = Append(@, v)]
  /\ arrival' = Append(arrival, <<s, v>>)
  /\ UNCHANGED <<pure, merges, outcome, sets, seen, results>>

\* stat[s].merge(stat[t]); rhs is a copy, stat[t] stays as it is
Merge(s, t) ==
  /\ merges < MaxMerges
  /\ stat[s].cnt + stat[t].cnt <= MaxCount
  /\ stat' = [stat EXCEPT ![s] = merge(@, stat[t])]
  /\ obs' = [obs EXCEPT ![s] = @ \o obs[t]]
  /\ pure' = [pure EXCEPT ![s] = FALSE]
  /\ merges' = merges + 1
  /\ UNCHANGED <<arrival, outcome, sets, seen, results>>

NextStats ==
  \/ \E s \in Slots, v \in Val : Add(s, v)
  \/ \E s \in Slots, t \in Slots : Merge(s, t)

SpecStats == Init /\ [][NextStats]_vars

\* The statistics handed to check(): built by add() and merge(), without
\* the histories.
Accumulate(s, v) ==
  /\ outcome = None
  /\ stat[s].cnt < MaxCount
  /\ stat' = [stat EXCEPT ![s] = add(@, v)]
  /\ UNCHANGED <<obs, pure, arrival, merges, outcome, sets, seen, results>>

Combine(s, t) ==
  /\ outcome = None
  /\ stat[s].cnt + stat[t].cnt <= MaxCount
  /\ stat' = [stat EXCEPT ![s] = merge(@, stat[t])]
  /\ UNCHANGED <<obs, pure, arrival, merges, outcome, sets, seen, results>>

\* LessThanStatCheck.check(&stat[e], &stat[a])
Check(e, a) ==
  /\ outcome = None
  /\ outcome' = [tag |-> "Checked", e |-> e, a |-> a,
                 expected |-> stat[e], actual |-> stat[a],
                 res |-> check(stat[e], stat[a])]
  /\ UNCHANGED <<stat, obs, pure, arrival, merges, sets, seen, results>>

NextCheck ==
  \/ \E s \in CheckSlots, v \in CheckVal : Accumulate(s, v)
  \/ \E s \in CheckSlots, t \in CheckSlots : Combine(s, t)
  \/ \E e \in CheckSlots, a \in CheckSlots : Check(e, a)

SpecCheck == Init /\ [][NextCheck]_vars

SeenAfter(sn, source) ==
  [n \in Names |->
     sn[n] \o [i \in 1..Len(SelectSeq(source, LAMBDA m : m.name = n)) |->
                 SelectSeq(source, LAMBDA m : m.name = n)[i].value]]

\* sets[k] = StatsByMetric::from_iter(source), recorded in the history
FromIter(k, source) ==
  /\ sets[k] = EmptyMap
  /\ source # <<>>
  /\ sets' = [sets EXCEPT ![k] = from_iter(source)]
  /\ seen' = [seen EXCEPT ![k] = SeenAfter(NoSeen, source)]
  /\ UNCHANGED <<stat, obs, pure, arrival, merges, outcome, results>>

SetCount(m) ==
  LET RECURSIVE Sum(_)
      Sum(D) == IF D = {} THEN 0
                ELSE LET n == CHOOSE x \in D : TRUE
                     IN  m[n].cnt + Sum(D \ {n})
  IN  Sum(DOMAIN m)

\* sets[k].merge(sets[l]); rhs is a clone, sets[l] stays as it is
SetMerge(k, l) ==
  /\ k # l
  /\ sets[l] # EmptyMap
  /\ SetCount(sets[k]) + SetCount(sets[l]) <= MaxCount
  /\ sets' = [sets EXCEPT ![k] = stats_by_metric_merge(@, sets[l])]
  /\ seen' = [seen EXCEPT ![k] = [n \in Names |-> @[n] \o seen[l][n]]]
  /\ UNCHANGED <<stat, obs, pure, arrival, merges, outcome, results>>

\* check.check_all(&sets[e], &sets[a])
CheckAll(e, a) ==
  /\ results = None
  /\ results' = [tag |-> "Checked", e |-> e, a |-> a,
                 expected |-> sets[e], actual |-> sets[a],
                 map |-> check_all(sets[e], sets[a])]
  /\ UNCHANGED <<stat, obs, pure, arrival, merges, outcome, sets, seen>>

NextAgg ==
  \/ \E k \in SetIds, source \in SeqsUpTo(Metrics, MaxStream) : FromIter(k, source)
  \/ \E k \in SetIds, l \in SetIds : SetMerge(k, l)

SpecAgg == Init /\ [][NextAgg]_vars

\* The sets handed to check_all(): built by from_iter() and merge(), without
\* the histories.
Build(k, source) ==
  /\ results = None
  /\ sets[k] = EmptyMap
  /\ source # <<>>
  /\ sets' = [sets EXCEPT ![k] = from_iter(source)]
  /\ UNCHANGED <<stat, obs, pure, arrival, merges, outcome, seen, results>>

Join(k, l) ==
  /\ results = None
  /\ k # l
  /\ sets[l] # EmptyMap
  /\ SetCount(sets[k]) + SetCount(sets[l]) <= MaxCount
  /\ sets' = [sets EXCEPT ![k] = stats_by_metric_merge(@, sets[l])]
  /\ UNCHANGED <<stat, obs, pure, arrival, merges, outcome, seen, results>>

NextSets ==
  \/ \E k \in SetIds, source \in SeqsUpTo(Metrics, MaxStream) : Build(k, source)
  \/ \E k \in SetIds, l \in SetIds : Join(k, l)
  \/ \E e \in SetIds, a \in SetIds : CheckAll(e, a)

SpecSets == Init /\ [][NextSets]_vars

---------------------------------------------------------------------------
(* What the statistics are compared with. *)

Elems(q) == {q[i] : i \in 1..Len(q)}

\* m is an added value that no added value exceeds / undercuts
IsGreatest(m, q) == m \in Elems(q) /\ \A x \in Elems(q) : ~Gt(x, m)
IsLeast(m, q) == m \in Elems(q) /\ \A x \in Elems(q) : ~Lt(x, m)

RECURSIVE SeqSum(_)
SeqSum(q) == IF q = <<>> THEN Zero ELSE FAdd(Head(q), SeqSum(Tail(q)))

ArithMean(q) == FDiv(SeqSum(q), FromU64(Len(q)))

\* the whole sequence accumulated with add() into a single statistic
RECURSIVE FromSeq(_)
FromSeq(q) == IF q = <<>> THEN empty ELSE add(FromSeq(SubSeq(q, 1, Len(q) - 1)), q[Len(q)])

\* the values added to the slots of S, in the order of their arrival
Whole(S) ==
  LET part == SelectSeq(arrival, LAMBDA e : e[1] \in S)
  IN  [i \in 1..Len(part) |-> part[i][2]]

Fields(x) == <<count(x), max(x), min(x), mean(x)>>
FieldsV(x) == <<count(x), max(x), min(x), mean(x), variance(x)>>

Dims == <<"Mean", "StdDev", "Max", "Min", "Count">>

DimValue(x, d) ==
  CASE d = "Mean" -> mean(x)
    [] d = "StdDev" -> stddev(x)
    [] d = "Max" -> max(x)
    [] d = "Min" -> min(x)
    [] d = "Count" -> FromU64(count(x))

Exceeds(E, A, d) ==
  IF d = "Count" THEN count(A) > count(E) ELSE Gt(DimValue(A, d), DimValue(E, d))

ExpectedFailures(E, A) ==
  LET viol == SelectSeq(Dims, LAMBDA d : Exceeds(E, A, d))
  IN  [i \in 1..Len(viol) |-> StatFailure(DimValue(E, viol[i]), DimValue(A, viol[i]), viol[i])]

---------------------------------------------------------------------------
(* Claims *)

\* C1: a statistic built from empty() by add() alone over a non-empty
\* sequence has count = the length of the sequence, max = the greatest added
\* value, min = the least added value and mean = the arithmetic mean, for
\* finite and non-finite values alike.
C1_AddTracksSequence ==
  \A s \in Slots :
    (pure[s] /\ obs[s] # <<>>) =>
      /\ count(stat[s]) = Len(obs[s])
      /\ IsGreatest(max(stat[s]), obs[s])
      /\ IsLeast(min(stat[s]), obs[s])
      /\ mean(stat[s]) = ArithMean(obs[s])

\* C2: merging two statistics, each accumulated with add() over one of two
\* subsequences of a sequence, gives the count, max, min, mean and variance
\* of the whole sequence accumulated with add() into a single statistic.
C2_MergeEqualsFullAccumulation ==
  [][\A s \in Slots, t \in Slots :
       (s # t /\ pure[s] /\ pure[t] /\ Merge(s, t)) =>
         FieldsV(stat'[s]) = FieldsV(FromSeq(Whole({s, t})))]_vars

\* C3: for any statistics A, B, C reachable by add/merge, the three merge
\* orders merge(merge(A,B),C), merge(A,merge(B,C)), merge(merge(A,C),B) give
\* the same count, max, min and mean, and merge(A,B) = merge(B,A) field by
\* field.
C3_MergeCommutativeAssociative ==
  \A a \in Slots, b \in Slots, c \in Slots :
    LET A == stat[a]
        B == stat[b]
        C == stat[c]
    IN  /\ Fields(merge(merge(A, B), C)) = Fields(merge(A, merge(B, C)))
        /\ Fields(merge(merge(A, B), C)) = Fields(merge(merge(A, C), B))
        /\ merge(A, B) = merge(B, A)

\* C4: merge(A, empty()) leaves count, max, min and mean of A unchanged, and
\* merge(empty(), A) has the count, max, min and mean of A, for every
\* statistic A reachable by add/merge.
C4_MergeWithEmptyIsNoOp ==
  [][\A s \in Slots, t \in Slots :
       Merge(s, t) =>
         /\ (stat[t] = empty => Fields(stat'[s]) = Fields(stat[s]))
         /\ (stat[s] = empty => Fields(stat'[s]) = Fields(stat[t]))]_vars

\* C5: the failures of check(expected, actual) are exactly one StatFailure
\* for each dimension whose actual value is strictly greater than the
\* expected one, carrying both values, in the order mean, stddev, max, min,
\* count (no short-circuit); when only the mean exceeds, the list is the one
\* Mean failure.
C5_CheckReportsEveryViolatedDimension ==
  outcome.tag = "Checked" =>
    outcome.res.failures = ExpectedFailures(outcome.expected, outcome.actual)

\* a check of finite statistics where the mean, max, min and count fail and
\* the stddev, between them, does not
C5_Witness ==
  /\ outcome.tag = "Checked"
  /\ mean(outcome.expected).k = "fin"
  /\ mean(outcome.actual).k = "fin"
  /\ count(outcome.expected) >= 1
  /\ Len(outcome.res.failures) = 4
  /\ ~Exceeds(outcome.expected, outcome.actual, "StdDev")

\* C6: check(expected, actual) returns Ok carrying actual unchanged iff no
\* dimension of actual is strictly greater than that of expected, and
\* otherwise Err with a non-empty failure list; check(E, E) is Ok(E); neither
\* argument is mutated.
C6_OkIffNoDimensionExceeds ==
  outcome.tag = "Checked" =>
    LET E == outcome.expected
        A == outcome.actual
        r == outcome.res
    IN  /\ r.tag \in {"Ok", "Err"}
        /\ (r.tag = "Ok") <=> (\A i \in 1..Len(Dims) : ~Exceeds(E, A, Dims[i]))
        /\ (r.tag = "Ok") => (r.stat = <<A>> /\ r.failures = <<>>)
        /\ (r.tag = "Err") => (r.stat = <<>> /\ r.failures # <<>>)
        /\ (outcome.e = outcome.a) => (r = Ok(E))
        /\ stat[outcome.e] = E
        /\ stat[outcome.a] = A

\* an accepted check of two different non-empty statistics
C6_Witness ==
  /\ outcome.tag = "Checked"
  /\ outcome.res.tag = "Ok"
  /\ outcome.expected # outcome.actual
  /\ count(outcome.actual) >= 1
  /\ mean(outcome.expected).k = "fin"
  /\ mean(outcome.actual).k = "fin"
  /\ Gt(mean(outcome.expected), mean(outcome.actual))

\* C7: the map check_all returns has exactly the metric names of
\* expected_set as keys (a name only in actual_set has no entry), and for a
\* name in both sets the entry is check(expected_set[name], actual_set[name]).
C7_CheckAllKeysAndEntries ==
  results.tag = "Checked" =>
    /\ DOMAIN results.map = DOMAIN results.expected
    /\ \A n \in DOMAIN results.expected \cap DOMAIN results.actual :
         results.map[n] = check(results.expected[n], results.actual[n])

\* a check_all with a name only in actual_set and a failing name in both
C7_Witness ==
  /\ results.tag = "Checked"
  /\ DOMAIN results.actual \ DOMAIN results.expected # {}
  /\ \E n \in DOMAIN results.expected \cap DOMAIN results.actual :
       results.map[n].tag = "Err"

\* C8 (as stated): the entry of a name of expected_set that actual_set lacks
\* is an empty failure list, indistinguishable from the entry of a metric
\* that was checked and had no violations.
C8_AbsentIndistinguishableFromPass ==
  results.tag = "Checked" =>
    \A n \in DOMAIN results.expected \ DOMAIN results.actual :
      /\ results.map[n].failures = <<>>
      /\ \A m \in DOMAIN results.expected \cap DOMAIN results.actual :
           (results.map[m].failures = <<>>) => (results.map[n].tag = results.map[m].tag)

\* C8 (amended): the entry of a name of expected_set that actual_set lacks is
\* Err with an empty failure list, and no checked metric has that entry: a
\* checked metric without violations has Ok carrying its actual statistic.
C8_AbsentIsErrEmpty ==
  results.tag = "Checked" =>
    \A n \in DOMAIN results.expected :
      IF n \in DOMAIN results.actual
      THEN /\ results.map[n] # Err(<<>>)
           /\ (results.map[n].failures = <<>>) => (results.map[n] = Ok(results.actual[n]))
      ELSE results.map[n] = Err(<<>>)

\* a check_all with a name actual_set lacks and a checked name that passes
C8_Witness ==
  /\ results.tag = "Checked"
  /\ DOMAIN results.expected \ DOMAIN results.actual # {}
  /\ \E m \in DOMAIN results.expected \cap DOMAIN results.actual :
       results.map[m].tag = "Ok"

\* C9: a set built by from_iter and merge has exactly one entry per metric
\* name observed, and each entry's count, max, min and mean are those of the
\* values observed under that name, however the stream was ordered or
\* sharded.
C9_SetTracksObservationsByName ==
  \A k \in SetIds :
    /\ DOMAIN sets[k] = {n \in Names : seen[k][n] # <<>>}
    /\ \A n \in DOMAIN sets[k] :
         /\ count(sets[k][n]) = Len(seen[k][n])
         /\ IsGreatest(max(sets[k][n]), seen[k][n])
         /\ IsLeast(min(sets[k][n]), seen[k][n])
         /\ mean(sets[k][n]) = ArithMean(seen[k][n])

\* C10: while count = 0, max is the minimum representable value and min the
\* maximum representable value; the first add of any value v to an empty
\* statistic gives max = min = v; and whenever count >= 1, min <= max and
\* both are values that were added.
C10_BoundsAreSentinelsOrAddedValues ==
  \A s \in Slots :
    /\ (count(stat[s]) = 0) => (max(stat[s]) = F64Min /\ min(stat[s]) = F64Max)
    /\ (pure[s] /\ Len(obs[s]) = 1) =>
         (max(stat[s]) = obs[s][1] /\ min(stat[s]) = obs[s][1])
    /\ (count(stat[s]) >= 1) =>
         /\ ~Gt(min(stat[s]), max(stat[s]))
         /\ max(stat[s]) \in Elems(obs[s])
         /\ min(stat[s]) \in Elems(obs[s])

=============================================================================
